---- MODULE Spec2Model ----
(***************************************************************************)
(* Model of the voice-billing webhook backend: the message handler of      *)
(* app.py, the NLU post-processing of services.py, the branch normalizer   *)
(* of utils.py and the two tables of models.py.                            *)
(*                                                                         *)
(* Python values are records [t, n, s]: t is the Python type ("absent"     *)
(* stands for a key that is not in a dict), n the numeric value, s the     *)
(* text.  A text is a sequence of symbols; a symbol is a word, a digit or  *)
(* a single space, and "far" is the qualifier word of utils.py:16.         *)
(***************************************************************************)
EXTENDS Integers, Sequences, FiniteSets, TLC

VARIABLES branches, transfers, today, inbox, last, raw_name, norm_result, norm_calls,
          seeders, tables

normvars == <<raw_name, norm_result, norm_calls>>

seedvars == <<seeders, tables>>

vars == <<branches, transfers, today, inbox, last, raw_name, norm_result, norm_calls,
          seeders, tables>>

(* ---------------------------- bounds ---------------------------------- *)

MaxTransfers == 2

MaxDay == 1

(* the longest raw branch name, in symbols *)
MaxNameLen == 5

MaxSeeders == 2

(* ------------------------- Python values ------------------------------ *)

Absent == [t |-> "absent", n |-> 0, s |-> <<>>]

None == [t |-> "none", n |-> 0, s |-> <<>>]

PyInt(k) == [t |-> "int", n |-> k, s |-> <<>>]

PyFloat(k) == [t |-> "float", n |-> k, s |-> <<>>]

NaN == [t |-> "nan", n |-> 0, s |-> <<>>]

Str(q) == [t |-> "str", n |-> 0, s |-> q]

Range(f) == {f[i] : i \in DOMAIN f}

(* variant: only a missing value is falsy, an empty text is not *)
FalsyNoneOnly(v) == v.t \in {"absent", "none"}

(* Python truthiness: `not v` *)
Falsy(v) ==
    \/ v.t \in {"absent", "none"}
    \/ v.t = "str" /\ v.s = <<>>
    \/ v.t \in {"int", "float"} /\ v.n = 0

(* dict.get(key) and dict.get(key, default) *)
Get(d, k) == IF d[k].t = "absent" THEN None ELSE d[k]

GetDefault(d, k, dflt) == IF d[k].t = "absent" THEN dflt ELSE d[k]

(* ---------------------------- config.py ------------------------------- *)

KNOWN_BRANCHES ==
    << <<"Salalem">>, <<"Madina">>, <<"Sweifieh">>, <<"Markaz", " ", "Raisi">> >>

DEFAULT_CURRENCY == Str(<<"JOD">>)

NoReply == [tpl |-> "none", args |-> <<>>]

Msg(tpl, args) == [tpl |-> tpl, args |-> args]

ERROR_MSG_GENERIC == Msg("ERROR_MSG_GENERIC", <<>>)

ERROR_MSG_UNDERSTAND == Msg("ERROR_MSG_UNDERSTAND", <<>>)

ERROR_MSG_MISSING_INFO_TRANSFER == Msg("ERROR_MSG_MISSING_INFO_TRANSFER", <<>>)

ERROR_MSG_MISSING_INFO_QUERY == Msg("ERROR_MSG_MISSING_INFO_QUERY", <<>>)

ERROR_MSG_STT_FAILED == Msg("ERROR_MSG_STT_FAILED", <<>>)

ERROR_MSG_API_DOWN == Msg("ERROR_MSG_API_DOWN", <<>>)

BRANCH_SELF_TRANSFER_MSG == Msg("BRANCH_SELF_TRANSFER_MSG", <<>>)

ERROR_MSG_BRANCH_NOT_FOUND(raw, list) == Msg("ERROR_MSG_BRANCH_NOT_FOUND", <<raw, list>>)

CONFIRM_TRANSFER_MSG(amount, currency, src, dst) ==
    Msg("CONFIRM_TRANSFER_MSG", <<amount, currency, src, dst>>)

QUERY_RESULT_MSG(branch, total, currency) ==
    Msg("QUERY_RESULT_MSG", <<branch, total, currency>>)

QUERY_NO_RESULT_MSG(branch) == Msg("QUERY_NO_RESULT_MSG", <<branch>>)

(* ", ".join(KNOWN_BRANCHES) *)
RECURSIVE Join(_)
Join(names) ==
    IF Len(names) = 0 THEN <<>>
    ELSE IF Len(names) = 1 THEN names[1]
    ELSE names[1] \o <<",", " ">> \o Join(Tail(names))

known_branch_list_str == Str(Join(KNOWN_BRANCHES))

(* ----------------------------- utils.py ------------------------------- *)

(* str.replace("far ", ""): one left-to-right pass, every occurrence *)
RECURSIVE ReplaceQualifier(_)
ReplaceQualifier(q) ==
    IF Len(q) = 0 THEN <<>>
    ELSE IF Len(q) >= 2 /\ q[1] = "far" /\ q[2] = " "
         THEN ReplaceQualifier(SubSeq(q, 3, Len(q)))
         ELSE <<q[1]>> \o ReplaceQualifier(Tail(q))

(* str.strip() *)
RECURSIVE Strip(_)
Strip(q) ==
    IF Len(q) = 0 THEN <<>>
    ELSE IF q[1] = " " THEN Strip(Tail(q))
    ELSE IF q[Len(q)] = " " THEN Strip(SubSeq(q, 1, Len(q) - 1))
    ELSE q

(* variant: only a name that carries the qualifier is accepted *)
normalize_qualified_only(name_from_llm) ==
    IF name_from_llm.t # "str" THEN None
    ELSE LET cleaned_name == Strip(ReplaceQualifier(name_from_llm.s))
         IN  IF cleaned_name \in Range(KNOWN_BRANCHES) /\ cleaned_name # name_from_llm.s
             THEN Str(cleaned_name) ELSE None

normalize_branch_name_strict(name_from_llm) ==
    IF name_from_llm.t # "str" THEN None
    ELSE LET cleaned_name == Strip(ReplaceQualifier(name_from_llm.s))
         IN  IF cleaned_name \in Range(KNOWN_BRANCHES) THEN Str(cleaned_name) ELSE None

(* --------------------------- services.py ------------------------------ *)

(* What the media download and the speech-to-text service did for one voice *)
(* message: stage is the first step that did not succeed, transcript is the *)
(* text Whisper returned when every step succeeded.                         *)
Media(stage, transcript) == [stage |-> stage, transcript |-> transcript]

NoMedia == Media("", None)

(* lines 20-34: a request error is caught and gives None; the platform's *)
(* answer is a JSON object, with or without a url                        *)
get_whatsapp_media_url(media) ==
    IF media.stage = "lookup_error" THEN None
    ELSE IF media.stage = "lookup_no_url" THEN None
    ELSE Str(<<"url">>)

(* lines 36-48 *)
download_whatsapp_media(media) ==
    IF media.stage = "download_error" THEN None ELSE Str(<<"ogg">>)

(* variant: a step that fails yields a text instead of None *)
transcribe_audio_placeholder(media) ==
    IF media.stage = "ok" THEN media.transcript ELSE Str(<<"msg">>)

(* lines 51-87 *)
transcribe_audio(media) ==
    LET media_url == get_whatsapp_media_url(media)
        audio_content_stream == download_whatsapp_media(media)
    IN  IF Falsy(media_url) THEN None
        ELSE IF Falsy(audio_content_stream) THEN None
        ELSE IF media.stage \in {"whisper_api_error", "whisper_exception"} THEN None
        ELSE media.transcript

Digits == <<"0", "1", "2", "3", "4", "5", "6", "7", "8", "9">>

DigitValue(c) == (CHOOSE i \in DOMAIN Digits : Digits[i] = c) - 1

RECURSIVE Decimal(_)
Decimal(q) ==
    IF Len(q) = 0 THEN 0
    ELSE 10 * Decimal(SubSeq(q, 1, Len(q) - 1)) + DigitValue(q[Len(q)])

(* float(v); "raise" stands for the ValueError / TypeError of line 195 *)
ToFloat(v) ==
    IF v.t \in {"int", "float"} THEN PyFloat(v.n)
    ELSE IF v.t = "nan" THEN NaN
    ELSE IF v.t = "str"
         THEN LET q == Strip(v.s)
              IN  IF q = <<"nan">> THEN NaN
                  ELSE IF Len(q) > 0 /\ \A i \in DOMAIN q : q[i] \in Range(Digits)
                       THEN PyFloat(Decimal(q))
                       ELSE [t |-> "raise", n |-> 0, s |-> <<>>]
         ELSE [t |-> "raise", n |-> 0, s |-> <<>>]

(* lines 192-198: the amount is converted when it can be, else left as it is *)
NormalizeAmountArg(v) ==
    IF v.t = "absent" THEN v
    ELSE IF ToFloat(v).t = "raise" THEN v ELSE ToFloat(v)

UpperSym(c) ==
    CASE c = "jod" -> "JOD"
      [] c = "Dinar" -> "DINAR"
      [] c = "dinar" -> "DINAR"
      [] c = "usd" -> "USD"
      [] c = "None" -> "NONE"
      [] OTHER -> c

(* str(v).upper() *)
UpperStr(v) ==
    IF v.t = "str" THEN [i \in DOMAIN v.s |-> UpperSym(v.s[i])]
    ELSE IF v.t = "none" THEN <<"NONE">>
    ELSE <<"number">>

(* lines 201-207 *)
NormalizeCurrencyArg(v, function_name) ==
    IF v.t # "absent"
    THEN LET curr == UpperStr(v)
         IN  IF \E i \in DOMAIN curr : curr[i] \in {"DINAR", "JOD"}
             THEN Str(<<"JOD">>) ELSE v
    ELSE IF function_name = "record_transfer" THEN DEFAULT_CURRENCY ELSE v

BranchKeys == {"source_branch", "destination_branch", "query_branch"}

(* lines 212-221: a known name replaces the raw one, anything else is kept *)
NormalizeBranchArg(v) ==
    IF v.t # "str" THEN v
    ELSE LET normalized == Strip(ReplaceQualifier(v.s))
         IN  IF normalized \in Range(KNOWN_BRANCHES) THEN Str(normalized) ELSE v

EntityKeys ==
    {"amount", "currency", "source_branch", "destination_branch", "query_branch",
     "date_range"}

EmptyEntities == [k \in EntityKeys |-> Absent]

NluResult(intent, entities) ==
    [none |-> FALSE, intent |-> intent, entities |-> entities, mapping |-> TRUE]

NluNone == [none |-> TRUE, intent |-> "", entities |-> EmptyEntities, mapping |-> TRUE]

(* line 224 when json.loads gave a JSON array: "entities" is a list *)
NluNotMapping(intent) ==
    [none |-> FALSE, intent |-> intent, entities |-> EmptyEntities, mapping |-> FALSE]

(* The oracle's answer is `oracle`: kind is what the chat-completion call   *)
(* did, fn and args are the first tool call's name and JSON arguments.      *)
(* Arguments that parse to a JSON array pass every `in` test of lines       *)
(* 192-213 as False; line 207 then fails on the item assignment for         *)
(* record_transfer, and the array is returned as the entities otherwise.    *)
get_intent_and_entities_from_llm(text, oracle) ==
    IF Falsy(text) THEN NluNone
    ELSE IF oracle.kind = "api_error" THEN NluResult("error_api_down", EmptyEntities)
    ELSE IF oracle.kind = "exception" THEN NluResult("error_generic_nlu", EmptyEntities)
    ELSE IF oracle.kind = "no_tool_call" THEN NluResult("unclear_request", EmptyEntities)
    ELSE IF oracle.kind = "bad_json" THEN NluResult("error_parsing_llm", EmptyEntities)
    ELSE IF oracle.kind = "tool_call_array"
         THEN IF oracle.fn = "record_transfer"
              THEN NluResult("error_processing_llm", EmptyEntities)
              ELSE NluNotMapping(oracle.fn)
    ELSE LET function_args == oracle.args
             \* .replace on a value that is not a str raises AttributeError
             raises == \E k \in BranchKeys : function_args[k].t \notin {"absent", "str"}
             result ==
                 [k \in EntityKeys |->
                     IF k = "amount" THEN NormalizeAmountArg(function_args[k])
                     ELSE IF k = "currency"
                          THEN NormalizeCurrencyArg(function_args[k], oracle.fn)
                     ELSE IF k \in BranchKeys THEN NormalizeBranchArg(function_args[k])
                     ELSE function_args[k]]
         IN  IF raises THEN NluResult("error_processing_llm", EmptyEntities)
             ELSE NluResult(oracle.fn, result)

(* ----------------------- models.py / database.py ---------------------- *)

BranchRow(id, name) == [id |-> id, name |-> name, is_active |-> TRUE]

(* session.query(Branch).filter(Branch.name == name): the matching ids *)
BranchIdsByName(name) == {branches[i].id : i \in {j \in DOMAIN branches : branches[j].name = name.s}}

(* variant: the two branch ids change places *)
TransferRowSwapped(amount, currency, source_branch_id, destination_branch_id, sender_number, original_text) ==
    [id |-> Len(transfers) + 1,
     timestamp |-> today,
     amount |-> amount,
     currency |-> currency,
     source_branch_id |-> destination_branch_id,
     destination_branch_id |-> source_branch_id,
     recorded_by_whatsapp_number |-> sender_number,
     original_message_text |-> original_text]

(* Transfer(...): id is the autoincrement key, timestamp is func.now() *)
TransferRow(amount, currency, source_branch_id, destination_branch_id, sender_number, original_text) ==
    [id |-> Len(transfers) + 1,
     timestamp |-> today,
     amount |-> amount,
     currency |-> currency,
     source_branch_id |-> source_branch_id,
     destination_branch_id |-> destination_branch_id,
     recorded_by_whatsapp_number |-> sender_number,
     original_message_text |-> original_text]

(* nullable=False on amount and currency (models.py:26-27) *)
NotNullViolated(row) == row.amount.t = "none" \/ row.currency.t = "none"

(* variant: the date filter is left out *)
RowsFromEver(branch_id) ==
    SelectSeq(transfers, LAMBDA r : r.source_branch_id = branch_id)

(* the rows summed by app.py:340-343 *)
RowsFromToday(branch_id) ==
    SelectSeq(transfers, LAMBDA r : r.source_branch_id = branch_id /\ r.timestamp = today)

RECURSIVE SumN(_)
SumN(rows) == IF Len(rows) = 0 THEN 0 ELSE rows[1].amount.n + SumN(Tail(rows))

(* func.sum(Transfer.amount).scalar(): NULL over no rows, NaN when a NaN is summed *)
SumAmounts(rows) ==
    IF Len(rows) = 0 THEN None
    ELSE IF \E i \in DOMAIN rows : rows[i].amount.t = "nan" THEN NaN
    ELSE PyFloat(SumN(rows))

(* ------------------------------ app.py -------------------------------- *)

(* what a use case did: the reply, the transfers table afterwards, how the *)
(* session ended, and how often the normalizer was invoked                 *)
Outcome(reply, rows, db, norm) == [reply |-> reply, rows |-> rows, db |-> db, norm |-> norm]

(* variant: `amount < 0`, a zero amount passes *)
AmountInvalidNegativeOnly(amount) ==
    \/ amount.t = "none"
    \/ amount.t \notin {"int", "float", "nan"}
    \/ amount.t \in {"int", "float"} /\ amount.n < 0

(* line 255 *)
AmountInvalid(amount) ==
    \/ amount.t = "none"
    \/ amount.t \notin {"int", "float", "nan"}
    \/ amount.t \in {"int", "float"} /\ amount.n <= 0

(* lines 254-257 *)
TransferErrors(amount, source_branch_llm, dest_branch_llm) ==
    (IF AmountInvalid(amount) THEN <<"amount">> ELSE <<>>)
    \o (IF Falsy(source_branch_llm) THEN <<"source_branch">> ELSE <<>>)
    \o (IF Falsy(dest_branch_llm) THEN <<"destination_branch">> ELSE <<>>)

(* lines 279-307; dbf is where the database fails in this call, if it does: *)
(* a lookup, the INSERT (also a backend that refuses a NaN), the COMMIT, or  *)
(* the SELECT that reloads new_transfer.id, which the commit has expired     *)
RecordInSession(amount, currency, source_branch_name, dest_branch_name, sender_number, original_text, dbf) ==
    LET source_ids == BranchIdsByName(source_branch_name)
        dest_ids == BranchIdsByName(dest_branch_name)
        new_transfer ==
            TransferRow(amount, currency, CHOOSE i \in source_ids : TRUE,
                        CHOOSE i \in dest_ids : TRUE, sender_number, original_text)
    IN  IF dbf = "lookup" THEN Outcome(ERROR_MSG_GENERIC, transfers, "fault_lookup", 2)
        ELSE IF source_ids = {} \/ dest_ids = {}
             THEN Outcome(ERROR_MSG_GENERIC, transfers, "no_result", 2)
        ELSE IF dbf = "flush" \/ NotNullViolated(new_transfer)
             THEN Outcome(ERROR_MSG_GENERIC, transfers, "fault_flush", 2)
        ELSE IF dbf = "commit"
             THEN Outcome(ERROR_MSG_GENERIC, transfers, "fault_commit", 2)
        ELSE IF dbf = "refresh"
             THEN Outcome(ERROR_MSG_GENERIC, Append(transfers, new_transfer),
                          "fault_refresh", 2)
        ELSE Outcome(CONFIRM_TRANSFER_MSG(amount, currency, source_branch_name,
                                          dest_branch_name),
                     Append(transfers, new_transfer), "ok", 2)

(* variant: the self-transfer check is missing *)
BranchCheckNoSelf(source_branch_llm, dest_branch_llm, source_branch_name, dest_branch_name) ==
    IF Falsy(source_branch_name)
    THEN ERROR_MSG_BRANCH_NOT_FOUND(source_branch_llm, known_branch_list_str)
    ELSE IF Falsy(dest_branch_name)
    THEN ERROR_MSG_BRANCH_NOT_FOUND(dest_branch_llm, known_branch_list_str)
    ELSE NoReply

(* variant: the message names the other branch's raw value *)
BranchCheckOtherName(source_branch_llm, dest_branch_llm, source_branch_name, dest_branch_name) ==
    IF Falsy(source_branch_name)
    THEN ERROR_MSG_BRANCH_NOT_FOUND(dest_branch_llm, known_branch_list_str)
    ELSE IF Falsy(dest_branch_name)
    THEN ERROR_MSG_BRANCH_NOT_FOUND(source_branch_llm, known_branch_list_str)
    ELSE IF source_branch_name = dest_branch_name
    THEN BRANCH_SELF_TRANSFER_MSG
    ELSE NoReply

(* lines 268-276: the reply of the first branch check that fails, else NoReply *)
BranchCheck(source_branch_llm, dest_branch_llm, source_branch_name, dest_branch_name) ==
    IF Falsy(source_branch_name)
    THEN ERROR_MSG_BRANCH_NOT_FOUND(source_branch_llm, known_branch_list_str)
    ELSE IF Falsy(dest_branch_name)
    THEN ERROR_MSG_BRANCH_NOT_FOUND(dest_branch_llm, known_branch_list_str)
    ELSE IF source_branch_name = dest_branch_name
    THEN BRANCH_SELF_TRANSFER_MSG
    ELSE NoReply

handle_record_transfer(entities, sender_number, original_text, dbf) ==
    LET amount == Get(entities, "amount")
        currency == GetDefault(entities, "currency", DEFAULT_CURRENCY)
        source_branch_llm == Get(entities, "source_branch")
        dest_branch_llm == Get(entities, "destination_branch")
        errors == TransferErrors(amount, source_branch_llm, dest_branch_llm)
        source_branch_name == normalize_branch_name_strict(source_branch_llm)
        dest_branch_name == normalize_branch_name_strict(dest_branch_llm)
        rejected == BranchCheck(source_branch_llm, dest_branch_llm, source_branch_name,
                                dest_branch_name)
    IN  IF errors # <<>>
        THEN Outcome(ERROR_MSG_MISSING_INFO_TRANSFER, transfers, "untouched", 0)
        ELSE IF rejected # NoReply
        THEN Outcome(rejected, transfers, "untouched", 2)
        ELSE RecordInSession(amount, currency, source_branch_name, dest_branch_name,
                             sender_number, original_text, dbf)

(* lines 331-361 *)
QueryInSession(branch_name, dbf) ==
    LET target_ids == BranchIdsByName(branch_name)
        total_amount == SumAmounts(RowsFromToday(CHOOSE i \in target_ids : TRUE))
    IN  IF dbf = "lookup" THEN Outcome(ERROR_MSG_GENERIC, transfers, "fault_lookup", 1)
        ELSE IF target_ids = {} THEN Outcome(ERROR_MSG_GENERIC, transfers, "no_result", 1)
        ELSE IF dbf = "sum" THEN Outcome(ERROR_MSG_GENERIC, transfers, "fault_sum", 1)
        ELSE IF total_amount.t = "float" /\ total_amount.n > 0
        THEN Outcome(QUERY_RESULT_MSG(branch_name, total_amount, DEFAULT_CURRENCY),
                     transfers, "ok", 1)
        ELSE Outcome(QUERY_NO_RESULT_MSG(branch_name), transfers, "ok", 1)

handle_query_branch_total(entities, dbf) ==
    LET branch_name_llm == Get(entities, "query_branch")
        branch_name == normalize_branch_name_strict(branch_name_llm)
    IN  IF Falsy(branch_name_llm)
        THEN Outcome(ERROR_MSG_MISSING_INFO_QUERY, transfers, "untouched", 0)
        ELSE IF Falsy(branch_name)
        THEN Outcome(ERROR_MSG_BRANCH_NOT_FOUND(branch_name_llm, known_branch_list_str),
                     transfers, "untouched", 1)
        ELSE QueryInSession(branch_name, dbf)

(* what handle_message did with one inbound message *)
Handled(reply, out, usecase, nlu_result, nlu, transcribed) ==
    [reply |-> reply, rows |-> out.rows, db |-> out.db, norm |-> out.norm,
     usecase |-> usecase, intent |-> nlu_result.intent, entities |-> nlu_result.entities,
     nlu |-> nlu, transcribed |-> transcribed, http |-> 200, exc |-> "", sends |-> <<>>]

NoUseCase == Outcome(NoReply, transfers, "untouched", 0)

(* variant: the api-down intent is not told apart *)
ErrorReplyUnderstand(intent) == ERROR_MSG_UNDERSTAND

(* lines 195-203: the reply to an intent that is no use case *)
ErrorReply(intent) ==
    IF intent = "error_api_down" THEN ERROR_MSG_API_DOWN ELSE ERROR_MSG_UNDERSTAND

(* an exception of class exc ended the try block of lines 141-217 *)
Threw(h, exc) == [h EXCEPT !.exc = exc]

(* lines 186-203 *)
Dispatch(nlu_result, sender_number, text_content, dbf, transcribed) ==
    LET intent == nlu_result.intent
        entities == nlu_result.entities
    IN  IF intent = "record_transfer"
        THEN LET out == handle_record_transfer(entities, sender_number, text_content, dbf)
             IN  Handled(out.reply, out, "record", nlu_result, TRUE, transcribed)
        ELSE IF intent = "query_branch_total"
        THEN IF ~nlu_result.mapping
             \* line 314: a list has no .get, the call raises before anything else
             THEN Threw(Handled(NoReply, NoUseCase, "query", nlu_result, TRUE, transcribed),
                        "AttributeError")
             ELSE LET out == handle_query_branch_total(entities, dbf)
                  IN  Handled(out.reply, out, "query", nlu_result, TRUE, transcribed)
        ELSE Handled(ErrorReply(intent), NoUseCase, "none", nlu_result, TRUE, transcribed)

(* variant: every message type is taken for a supported one *)
SupportedAny(message_type) == TRUE

(* lines 157-175: the types that are processed *)
Supported(message_type) == message_type \in {"text", "audio"}

(* lines 154-210 for a message whose fields are all there *)
Process(message, media, oracle, dbf) ==
    LET sender_number == message.from
        transcribed == message.type = "audio"
        stt == IF transcribed THEN transcribe_audio(media) ELSE None
        text_content == IF message.type = "text" THEN message.body ELSE stt
        processing_error == IF transcribed /\ Falsy(text_content)
                            THEN ERROR_MSG_STT_FAILED ELSE NoReply
        nlu_result == get_intent_and_entities_from_llm(text_content, oracle)
    IN  IF ~Falsy(text_content) /\ processing_error = NoReply
        THEN IF nlu_result.none
             \* line 213 reads response_message, which no branch has assigned
             THEN Threw(Handled(NoReply, NoUseCase, "none", NluNone, TRUE, transcribed),
                        "UnboundLocalError")
             ELSE Dispatch(nlu_result, sender_number, text_content, dbf, transcribed)
        ELSE IF processing_error # NoReply
        THEN Handled(processing_error, NoUseCase, "none", NluNone, FALSE, transcribed)
        ELSE Handled(ERROR_MSG_GENERIC, NoUseCase, "none", NluNone, FALSE, transcribed)

(* services.py:253-293: one POST to the platform, True or False, never raises *)
send_whatsapp_message(recipient_number, message_text, delivered) ==
    [to |-> recipient_number, text |-> message_text, ok |-> delivered]

Ignored == Handled(NoReply, NoUseCase, "none", NluNone, FALSE, FALSE)

(* lines 141-152 and 157-163: the first subscript that fails, "" if none *)
PayloadError(message) ==
    IF message.shape = "no_entry" THEN "IndexError"
    ELSE IF message.shape = "no_messages" THEN ""
    ELSE IF message.shape \in {"no_from", "no_id"} THEN "KeyError"
    ELSE IF Supported(message.type) /\ message.shape = "no_content" THEN "KeyError"
    ELSE ""

(* variant: a reply that was not delivered is sent once more *)
ConcludeRetry(h, message, delivered) ==
    IF h.exc # "" \/ h.reply = NoReply THEN h
    ELSE [h EXCEPT !.sends =
             IF delivered THEN <<send_whatsapp_message(message.from, h.reply, TRUE)>>
             ELSE <<send_whatsapp_message(message.from, h.reply, FALSE),
                    send_whatsapp_message(message.from, h.reply, FALSE)>>]

(* lines 212-236: the reply of the try block, or what the except clauses do *)
Conclude(h, message, delivered) ==
    IF h.exc = "KeyError" THEN h
    ELSE IF h.exc # ""
    THEN IF message.shape = "no_entry" THEN h
         ELSE [h EXCEPT !.sends = <<send_whatsapp_message(message.from, ERROR_MSG_GENERIC,
                                                          delivered)>>]
    ELSE IF h.reply # NoReply
    THEN [h EXCEPT !.sends = <<send_whatsapp_message(message.from, h.reply, delivered)>>]
    ELSE h

(* lines 130-239 *)
handle_message(message, media, oracle, dbf, delivered) ==
    IF message.object = "not_an_object"
    \* line 140: body.get on None or on a list, outside the try block
    THEN [Threw(Ignored, "AttributeError") EXCEPT !.http = 500]
    ELSE IF message.object # "whatsapp_business_account"
    THEN [Ignored EXCEPT !.http = 404]
    ELSE IF PayloadError(message) # ""
    THEN Conclude(Threw(Ignored, PayloadError(message)), message, delivered)
    ELSE IF message.shape = "no_messages" \/ ~Supported(message.type)
    THEN Ignored
    ELSE Conclude(Process(message, media, oracle, dbf), message, delivered)

(* ------------------------------ inputs -------------------------------- *)

Sender == Str(<<"962790000001">>)

(* The JSON body of one POST /webhook. object is its "object" value, or    *)
(* "not_an_object" for a body that is JSON null or an array; shape names   *)
(* the part of entry[0].changes[0].value.messages[0] that is missing:      *)
(* "no_entry" an empty entry list, "no_messages" a status notification,    *)
(* "no_from" / "no_id" / "no_content" a message without that field.        *)
Payload(object, shape, type, body) ==
    [object |-> object, shape |-> shape, type |-> type, body |-> body, from |-> Sender]

Message(type, body) == Payload("whatsapp_business_account", "ok", type, body)

NoMessage == Payload("", "", "", None)

WellFormed ==
    {Message("text", Str(<<"msg">>)), Message("text", Str(<<>>)), Message("audio", None),
     Message("image", None)}

Malformed ==
    {Payload("not_an_object", "", "", None), Payload("page", "ok", "text", Str(<<"msg">>))}
    \cup {Payload("whatsapp_business_account", sh, "text", Str(<<"msg">>)) :
            sh \in {"no_entry", "no_messages", "no_from", "no_id", "no_content"}}
    \cup {Payload("whatsapp_business_account", "no_content", t, None) : t \in {"audio", "image"}}

Messages == WellFormed \cup Malformed

Transcripts == {Str(<<>>), Str(<<"msg">>)}

MediaOutcomes ==
    {Media(st, None) : st \in {"lookup_error", "lookup_no_url", "download_error",
                               "whisper_api_error", "whisper_exception"}}
    \cup {Media("ok", t) : t \in Transcripts}

AmountArgs == {Absent, PyInt(-1), PyInt(0), PyInt(2), Str(<<"x">>), Str(<<"nan">>)}

CurrencyArgs == {Absent, None, Str(<<"dinar">>), Str(<<"USD">>)}

SourceArgs ==
    {Absent, Str(<<"Salalem">>), Str(<<"far", " ", "Sweifieh">>),
     Str(<<"far", " ", "Unknown">>)}

DestArgs == {Absent, Str(<<"Sweifieh">>), Str(<<"Unknown">>)}

QueryBranchArgs ==
    {Absent, Str(<<>>), Str(<<"Salalem">>), Str(<<"far", " ", "Sweifieh">>),
     Str(<<"Madina">>), Str(<<"Unknown">>)}

DateRangeArgs == {Absent, Str(<<"today">>), Str(<<"yesterday">>)}

RecordTransferArgs(amount, currency, source_branch, destination_branch) ==
    [amount |-> amount, currency |-> currency, source_branch |-> source_branch,
     destination_branch |-> destination_branch, query_branch |-> Absent,
     date_range |-> Absent]

QueryBranchTotalArgs(query_branch, date_range) ==
    [amount |-> Absent, currency |-> Absent, source_branch |-> Absent,
     destination_branch |-> Absent, query_branch |-> query_branch,
     date_range |-> date_range]

(* every amount with every source and destination, the currency left out;  *)
(* every currency on one transfer that is otherwise valid; the transfer of  *)
(* test.py the other way, both names with the qualifier; and one call whose *)
(* source is JSON null                                                      *)
RecordArgs ==
    {RecordTransferArgs(a, Absent, src, dst) :
        a \in AmountArgs, src \in SourceArgs, dst \in DestArgs}
    \cup {RecordTransferArgs(PyInt(2), c, Str(<<"Salalem">>), Str(<<"Sweifieh">>)) :
            c \in CurrencyArgs}
    \cup {RecordTransferArgs(PyInt(2), Absent, Str(<<"far", " ", "Sweifieh">>),
                             Str(<<"far", " ", "Salalem">>)),
          RecordTransferArgs(PyInt(2), Absent, None, Str(<<"Sweifieh">>))}

QueryArgs == {QueryBranchTotalArgs(b, d) : b \in QueryBranchArgs, d \in DateRangeArgs}

Oracle(kind, fn, args) == [kind |-> kind, fn |-> fn, args |-> args]

NoOracle == Oracle("", "", EmptyEntities)

OracleAnswers ==
    {Oracle(k, "", EmptyEntities) : k \in {"api_error", "exception", "no_tool_call"}}
    \cup {Oracle("bad_json", fn, EmptyEntities) : fn \in {"record_transfer", "query_branch_total"}}
    \cup {Oracle("tool_call", "record_transfer", a) : a \in RecordArgs}
    \cup {Oracle("tool_call", "query_branch_total", a) : a \in QueryArgs}
    \cup {Oracle("tool_call", "list_recent", EmptyEntities)}
    \cup {Oracle("tool_call_array", fn, EmptyEntities) :
            fn \in {"record_transfer", "query_branch_total"}}

(* From line 178 on a transcript is handled as a typed text is; a voice    *)
(* message is answered with every failure of the oracle and with one       *)
(* instruction of each kind.                                               *)
VoiceAnswers ==
    {o \in OracleAnswers : o.kind # "tool_call"}
    \cup {Oracle("tool_call", "record_transfer",
                 RecordTransferArgs(PyInt(2), Absent, Str(<<"Salalem">>), Str(<<"Sweifieh">>))),
          Oracle("tool_call", "query_branch_total",
                 QueryBranchTotalArgs(Str(<<"Salalem">>), Absent))}

RecordFaults == {"none", "lookup", "flush", "commit", "refresh"}

QueryFaults == {"none", "lookup", "sum"}

(* the oracle is asked only about a text that is not empty *)
AnswersFor(text) == IF Falsy(text) THEN {NoOracle} ELSE OracleAnswers

(* the database can fail only in a call that opens a session *)
FaultsFor(text, oracle) ==
    LET nlu_result == get_intent_and_entities_from_llm(text, oracle)
    IN  IF nlu_result.intent = "record_transfer"
           /\ handle_record_transfer(nlu_result.entities, Sender, text, "none").db # "untouched"
        THEN RecordFaults
        ELSE IF nlu_result.intent = "query_branch_total"
                /\ handle_query_branch_total(nlu_result.entities, "none").db # "untouched"
        THEN QueryFaults
        ELSE {"none"}

(* ---------------------------- state machine --------------------------- *)

Idle(op) ==
    [op |-> op, mtype |-> "", text |-> None, oracle |-> NoOracle, before |-> <<>>,
     day |-> 0, dbf |-> "none", reply |-> NoReply, db |-> "untouched", norm |-> 0, usecase |-> "none",
     intent |-> "", entities |-> EmptyEntities, nlu |-> FALSE, transcribed |-> FALSE,
     http |-> 0, exc |-> "", sends |-> <<>>, message |-> NoMessage, media |-> NoMedia,
     store |-> <<>>]

(* the workers that import app.py, each running init_db() once *)
Seeders == 1..MaxSeeders

(* a worker's position in init_db(): saw is what create_all's look at the   *)
(* schema found, next the index of the name its flush inserts next, pending *)
(* the names it has inserted in its open transaction                        *)
Seeder(pc, saw, next, pending) ==
    [pc |-> pc, saw |-> saw, next |-> next, pending |-> pending]

NotStarted == Seeder("start", FALSE, 0, <<>>)

Init ==
    /\ branches = <<>>
    /\ transfers = <<>>
    /\ today = 0
    /\ inbox = NoMessage
    /\ last = Idle("start")
    /\ raw_name = None
    /\ norm_result = None
    /\ norm_calls = 0
    /\ seeders = [w \in Seeders |-> NotStarted]
    /\ tables = TRUE

(* one Branch row per name of the Directory, in its order *)
Directory == [i \in DOMAIN KNOWN_BRANCHES |-> BranchRow(i, KNOWN_BRANCHES[i])]

(* variant: the rows are added whatever the table holds *)
init_db_unconditional(fault) ==
    /\ inbox = NoMessage /\ last.op # "handle_message"
    /\ Len(branches) <= Len(KNOWN_BRANCHES)
    /\ branches' = IF fault THEN branches ELSE branches \o Directory
    /\ last' = [Idle("init_db") EXCEPT !.store = branches, !.dbf = IF fault THEN "seed" ELSE "none"]
    /\ UNCHANGED <<transfers, today, inbox, normvars, seedvars>>

(* database.py:27-42; fault: the seeding transaction fails and is rolled back *)
init_db(fault) ==
    /\ inbox = NoMessage /\ last.op # "handle_message"
    /\ branches' =
           IF Len(branches) = 0 /\ ~fault
           THEN [i \in DOMAIN KNOWN_BRANCHES |-> BranchRow(i, KNOWN_BRANCHES[i])]
           ELSE branches
    /\ last' = [Idle("init_db") EXCEPT !.store = branches, !.dbf = IF fault THEN "seed" ELSE "none"]
    /\ UNCHANGED <<transfers, today, inbox, normvars, seedvars>>

InitDb == \E fault \in BOOLEAN : init_db(fault)

(* the platform posts one message to /webhook; the previous request is over *)
Post ==
    \E message \in Messages :
        /\ inbox = NoMessage /\ last.op # "handle_message"
        /\ inbox' = message
        /\ last' = Idle("post")
        /\ UNCHANGED <<branches, transfers, today, normvars, seedvars>>

(* the handler serves the posted message to its end; delivered is whether  *)
(* the platform accepted the reply, and matters only when one is sent      *)
Serve(media, oracle, dbf, delivered) ==
    \E h \in {handle_message(inbox, media, oracle, dbf, delivered)} :
        /\ h.sends = <<>> => delivered
        /\ Len(h.rows) <= MaxTransfers
        /\ transfers' = h.rows
        /\ inbox' = NoMessage
        /\ last' = [op |-> "handle_message", mtype |-> inbox.type,
                    text |-> IF inbox.type = "text" THEN inbox.body
                             ELSE IF h.transcribed THEN transcribe_audio(media)
                             ELSE None,
                    oracle |-> IF h.nlu THEN oracle ELSE NoOracle,
                    before |-> transfers, day |-> today, dbf |-> dbf,
                    reply |-> h.reply, db |-> h.db, norm |-> h.norm,
                    usecase |-> h.usecase, intent |-> h.intent, entities |-> h.entities,
                    nlu |-> h.nlu, transcribed |-> h.transcribed, http |-> h.http,
                    exc |-> h.exc, sends |-> h.sends, message |-> inbox,
                    media |-> IF h.transcribed THEN media ELSE NoMedia, store |-> <<>>]
        /\ UNCHANGED <<branches, today, normvars, seedvars>>

Complete(message) == message.object = "whatsapp_business_account" /\ message.shape = "ok"

HandleText ==
    /\ Complete(inbox) /\ inbox.type = "text"
    /\ \E oracle \in AnswersFor(inbox.body) :
           \E dbf \in FaultsFor(inbox.body, oracle) :
               \E delivered \in BOOLEAN : Serve(NoMedia, oracle, dbf, delivered)

HandleAudio ==
    /\ Complete(inbox) /\ inbox.type = "audio"
    /\ \E media \in MediaOutcomes :
           \E oracle \in AnswersFor(transcribe_audio(media)) \cap ({NoOracle} \cup VoiceAnswers) :
               \E dbf \in FaultsFor(transcribe_audio(media), oracle) :
                   \E delivered \in BOOLEAN : Serve(media, oracle, dbf, delivered)

HandleUnsupported ==
    /\ Complete(inbox) /\ inbox.type \notin {"text", "audio"}
    /\ Serve(NoMedia, NoOracle, "none", TRUE)

(* a body that is not the platform's, or a message with a part missing *)
HandleMalformed ==
    /\ inbox # NoMessage /\ ~Complete(inbox)
    /\ Serve(NoMedia, NoOracle, "none", TRUE)

(* app.py:97-102: the request context is torn down, whatever the handler *)
(* returned or raised; the scoped session is removed                     *)
shutdown_session ==
    /\ last.op = "handle_message"
    /\ last' = Idle("shutdown_session")
    /\ UNCHANGED <<branches, transfers, today, inbox, normvars, seedvars>>

(* midnight passes; the application (date.today()) and the database       *)
(* (func.now(), the cast to Date) are taken to agree on the calendar date  *)
Tick ==
    /\ today < MaxDay
    /\ today' = today + 1
    /\ UNCHANGED <<branches, transfers, inbox, last, normvars, seedvars>>

Next ==
    InitDb \/ Post \/ HandleText \/ HandleAudio \/ HandleUnsupported \/ HandleMalformed
    \/ shutdown_session \/ Tick

Spec == Init /\ [][Next]_vars

(* ------------------- the normalizer called on its own ----------------- *)

(* Names are sequences over NameAlphabet: "far" stands for the three letters *)
(* of the qualifier, " " for a space, every other symbol for letters that    *)
(* hold neither; symbols next to each other are written without a space.     *)
NameAlphabet == {"far", " ", "Salalem", "salalem", "Markaz", "Raisi"}

RawNames ==
    {None, PyInt(1)}
    \cup {Str(q) : q \in UNION {[1..k -> NameAlphabet] : k \in 0..MaxNameLen}}

NormInit ==
    /\ branches = <<>>
    /\ transfers = <<>>
    /\ today = 0
    /\ inbox = NoMessage
    /\ last = Idle("start")
    /\ raw_name \in RawNames
    /\ norm_result = None
    /\ norm_calls = 0
    /\ seeders = [w \in Seeders |-> NotStarted]
    /\ tables = TRUE

(* utils.py:5-26 called on raw_name *)
Normalize ==
    /\ norm_calls = 0
    /\ norm_result' = normalize_branch_name_strict(raw_name)
    /\ norm_calls' = 1
    /\ UNCHANGED <<branches, transfers, today, inbox, last, raw_name, seedvars>>

(* the name a call returned is passed to the normalizer again *)
Renormalize ==
    /\ norm_calls = 1 /\ norm_result # None
    /\ raw_name' = norm_result
    /\ norm_result' = normalize_branch_name_strict(norm_result)
    /\ norm_calls' = 2
    /\ UNCHANGED <<branches, transfers, today, inbox, last, seedvars>>

NormNext == Normalize \/ Renormalize

NormSpec == NormInit /\ [][NormNext]_vars

(* ---------------- several workers seeding at the same time ------------- *)

(* every variable but the ones the seeding workers read or write *)
unseeded == <<transfers, today, inbox, last, normvars>>

SeedInit ==
    /\ branches = <<>>
    /\ transfers = <<>>
    /\ today = 0
    /\ inbox = NoMessage
    /\ last = Idle("start")
    /\ raw_name = None
    /\ norm_result = None
    /\ norm_calls = 0
    /\ seeders = [w \in Seeders |-> NotStarted]
    /\ tables \in BOOLEAN

(* a committed Branch row holds name *)
Committed(name) == \E i \in DOMAIN branches : branches[i].name = name

(* a worker other than w has inserted name in a transaction still open *)
HeldByOther(name, w) ==
    \E v \in Seeders \ {w} :
        \E i \in DOMAIN seeders[v].pending : seeders[v].pending[i] = name

(* variant: branches.name carries no unique index *)
NoUniqueIndex(name, w) == "free"

(* models.py:11 unique=True: what the index on branches.name answers to   *)
(* worker w's INSERT of name. "locked": the row of an open transaction    *)
(* stands in the way, the INSERT waits for it or gives up, as the backend *)
(* behind DATABASE_URL decides.                                           *)
UniqueIndex(name, w) ==
    IF Committed(name) THEN "duplicate"
    ELSE IF HeldByOther(name, w) THEN "locked"
    ELSE "free"

(* database.py:21 create_all looks up which tables the store has *)
InspectTables(w) ==
    /\ seeders[w].pc = "start"
    /\ seeders' = [seeders EXCEPT ![w] = Seeder("create", tables, 0, <<>>)]
    /\ UNCHANGED <<branches, tables, unseeded>>

(* database.py:21 create_all creates the tables it did not find, each     *)
(* with its indexes, in one step; when another worker created them in     *)
(* between the CREATE TABLE fails, the                                    *)
(* exception leaves init_db() before its try and app.py:93-95 logs it     *)
CreateTables(w) ==
    /\ seeders[w].pc = "create"
    /\ seeders' = [seeders EXCEPT ![w].pc =
                       IF ~seeders[w].saw /\ tables THEN "crashed" ELSE "count"]
    /\ tables' = TRUE
    /\ UNCHANGED <<branches, unseeded>>

(* database.py:29-33 the count sees committed rows only; the Branch       *)
(* objects are added to the session, nothing is sent (autoflush=False)    *)
CountBranches(w) ==
    /\ seeders[w].pc = "count"
    /\ seeders' = [seeders EXCEPT ![w] =
                       IF Len(branches) = 0
                       THEN Seeder("flush", seeders[w].saw, 1, <<>>)
                       ELSE Seeder("populated", seeders[w].saw, 0, <<>>)]
    /\ UNCHANGED <<branches, tables, unseeded>>

(* database.py:34 commit() flushes: one INSERT per added Branch, in the   *)
(* order of KNOWN_BRANCHES; an INSERT the index refuses, or that gives up *)
(* waiting, raises into the except of line 38 with the transaction open   *)
InsertBranch(w) ==
    /\ seeders[w].pc = "flush"
    /\ LET name == KNOWN_BRANCHES[seeders[w].next]
       IN  seeders' = [seeders EXCEPT ![w] =
               IF UniqueIndex(name, w) = "free"
               THEN Seeder(IF seeders[w].next = Len(KNOWN_BRANCHES) THEN "commit" ELSE "flush",
                           seeders[w].saw, seeders[w].next + 1,
                           Append(seeders[w].pending, name))
               ELSE Seeder("failed", seeders[w].saw, seeders[w].next, seeders[w].pending)]
    /\ UNCHANGED <<branches, tables, unseeded>>

(* database.py:34 the COMMIT after the flush: the inserted rows become    *)
(* visible to every worker; ids follow the rows already there             *)
CommitSeed(w) ==
    /\ seeders[w].pc = "commit"
    /\ branches' = branches \o [i \in DOMAIN seeders[w].pending |->
                                    BranchRow(Len(branches) + i, seeders[w].pending[i])]
    /\ seeders' = [seeders EXCEPT ![w] = Seeder("seeded", seeders[w].saw, 0, <<>>)]
    /\ UNCHANGED <<tables, unseeded>>

(* database.py:38-42 except: rollback() drops what the worker inserted *)
RollbackSeed(w) ==
    /\ seeders[w].pc = "failed"
    /\ seeders' = [seeders EXCEPT ![w] = Seeder("lost", seeders[w].saw, 0, <<>>)]
    /\ UNCHANGED <<branches, tables, unseeded>>

SeedNext ==
    \E w \in Seeders :
        \/ InspectTables(w)
        \/ CreateTables(w)
        \/ CountBranches(w)
        \/ InsertBranch(w)
        \/ CommitSeed(w)
        \/ RollbackSeed(w)

SeedSpec == SeedInit /\ [][SeedNext]_vars

(* ----------------------------- properties ----------------------------- *)

RecordCall == last.op = "handle_message" /\ last.usecase = "record"

(* query() was called with a mapping of entities and returned *)
QueryCall == last.op = "handle_message" /\ last.usecase = "query" /\ last.exc = ""

(* the arguments the use case was called with *)
Arg(k) == Get(last.entities, k)

Canonical(v) == normalize_branch_name_strict(v)

FullBranchList == Str(Join(KNOWN_BRANCHES))

LedgerUnchanged == transfers = last.before

LedgerUntouched == LedgerUnchanged /\ last.db = "untouched"

PositiveNumber(a) == a.t \in {"int", "float"} /\ a.n > 0

(* missing, not a number, or a number <= 0 *)
AmountMissingOrInvalid(a) ==
    \/ a.t \in {"absent", "none", "str"}
    \/ a.t \in {"int", "float"} /\ a.n <= 0

Omitted(v) == v.t \in {"absent", "none"} \/ v = Str(<<>>)

HasBranch(name) == \E i \in DOMAIN branches : branches[i].name = name.s

BranchIdOf(name) == branches[CHOOSE i \in DOMAIN branches : branches[i].name = name.s].id

(* the call met no persistence failure: no fault, both rows found, no NULL *)
RecordPersistenceOk ==
    /\ last.dbf = "none"
    /\ HasBranch(Canonical(Arg("source_branch")))
    /\ HasBranch(Canonical(Arg("destination_branch")))
    /\ Arg("currency").t # "none"

TwoDifferentBranches ==
    /\ Canonical(Arg("source_branch")) # None
    /\ Canonical(Arg("destination_branch")) # None
    /\ Canonical(Arg("source_branch")) # Canonical(Arg("destination_branch"))

NewRow == transfers[Len(transfers)]

(* C1: a record() call with a numeric amount > 0 and two different canonical *)
(* branches, the persistence layer not failing, appends exactly one Transfer *)
(* row with that amount, the supplied currency (the default when the oracle  *)
(* gave none), the two branch ids, the sender and the original text, and     *)
(* returns the confirmation with amount, currency and canonical names.       *)
C1_TransferRecorded ==
    (RecordCall /\ PositiveNumber(Arg("amount")) /\ TwoDifferentBranches
     /\ RecordPersistenceOk)
    => /\ Len(transfers) = Len(last.before) + 1
       /\ SubSeq(transfers, 1, Len(last.before)) = last.before
       /\ NewRow.amount = Arg("amount")
       /\ NewRow.currency = GetDefault(last.entities, "currency", DEFAULT_CURRENCY)
       /\ (last.oracle.args.currency = Absent => NewRow.currency = DEFAULT_CURRENCY)
       /\ NewRow.source_branch_id = BranchIdOf(Canonical(Arg("source_branch")))
       /\ NewRow.destination_branch_id = BranchIdOf(Canonical(Arg("destination_branch")))
       /\ NewRow.recorded_by_whatsapp_number = Sender
       /\ NewRow.original_message_text = last.text
       /\ last.reply = CONFIRM_TRANSFER_MSG(Arg("amount"), NewRow.currency,
                                            Canonical(Arg("source_branch")),
                                            Canonical(Arg("destination_branch")))

C1_Witness ==
    /\ RecordCall /\ PositiveNumber(Arg("amount")) /\ TwoDifferentBranches
    /\ RecordPersistenceOk
    /\ last.oracle.args.currency = Absent
    /\ last.oracle.args.source_branch = Str(<<"far", " ", "Sweifieh">>)
    /\ last.reply.tpl = "CONFIRM_TRANSFER_MSG"
    /\ Len(last.before) = 1

(* C2: a record() call whose amount is missing, non-numeric or <= 0 returns  *)
(* the missing/invalid-fields message whatever the branches are, and writes  *)
(* nothing.                                                                  *)
C2_InvalidAmountRejected ==
    (RecordCall /\ AmountMissingOrInvalid(Arg("amount")))
    => last.reply = ERROR_MSG_MISSING_INFO_TRANSFER /\ LedgerUntouched

C2_Witness ==
    /\ RecordCall /\ Arg("amount") = PyFloat(0) /\ TwoDifferentBranches
    /\ last.reply = ERROR_MSG_MISSING_INFO_TRANSFER

SameBranch ==
    /\ Canonical(Arg("source_branch")) # None
    /\ Canonical(Arg("source_branch")) = Canonical(Arg("destination_branch"))

(* C3 as stated: source and destination normalizing to the same branch give  *)
(* the self-transfer message and no write, whether or not the amount is      *)
(* valid.                                                                    *)
C3_SelfTransferAnyAmount ==
    (RecordCall /\ SameBranch) => last.reply = BRANCH_SELF_TRANSFER_MSG /\ LedgerUntouched

(* C3 amended: source and destination normalizing to the same branch never   *)
(* reach the ledger; the reply is the self-transfer message when the amount  *)
(* passes step 1, and the missing/invalid-fields message when it does not.   *)
C3_SelfTransferRejected ==
    (RecordCall /\ SameBranch)
    => /\ LedgerUntouched
       /\ last.reply = IF AmountMissingOrInvalid(Arg("amount"))
                       THEN ERROR_MSG_MISSING_INFO_TRANSFER
                       ELSE BRANCH_SELF_TRANSFER_MSG

C3_Witness ==
    /\ RecordCall /\ SameBranch /\ PositiveNumber(Arg("amount"))
    /\ last.reply = BRANCH_SELF_TRANSFER_MSG

PassesStepOne ==
    /\ ~AmountMissingOrInvalid(Arg("amount"))
    /\ ~Omitted(Arg("source_branch"))
    /\ ~Omitted(Arg("destination_branch"))

(* C4: a record() call that passes step 1 and whose source or destination   *)
(* does not normalize returns branch-not-found with the offending raw value  *)
(* (the source's first) and the full canonical list, without any ledger      *)
(* access.                                                                   *)
C4_UnknownBranchRejected ==
    (RecordCall /\ PassesStepOne
     /\ (Canonical(Arg("source_branch")) = None \/ Canonical(Arg("destination_branch")) = None))
    => /\ last.reply =
              ERROR_MSG_BRANCH_NOT_FOUND(
                  IF Canonical(Arg("source_branch")) = None
                  THEN Arg("source_branch") ELSE Arg("destination_branch"),
                  FullBranchList)
       /\ LedgerUntouched

C4_Witness ==
    /\ RecordCall /\ PassesStepOne
    /\ Canonical(Arg("source_branch")) # None
    /\ Canonical(Arg("destination_branch")) = None
    /\ last.reply.tpl = "ERROR_MSG_BRANCH_NOT_FOUND"

PersistenceFault ==
    last.db \in {"fault_lookup", "no_result", "fault_flush", "fault_commit",
                 "fault_refresh", "fault_sum"}

(* C5: a persistence fault anywhere in step 4 of record() gives the generic  *)
(* internal error and leaves the transfers as they were; a row written by    *)
(* the call exists only if the confirmation was returned.                    *)
C5_NoRowWithoutConfirmation ==
    /\ (RecordCall /\ PersistenceFault)
       => last.reply = ERROR_MSG_GENERIC /\ LedgerUnchanged
    /\ (RecordCall /\ ~LedgerUnchanged) => last.reply.tpl = "CONFIRM_TRANSFER_MSG"

(* C6: every Transfer row has an amount > 0 and two different branch ids     *)
(* that both refer to Branch rows.                                           *)
C6_TransferRowsValid ==
    \A i \in DOMAIN transfers :
        /\ PositiveNumber(transfers[i].amount)
        /\ \E b \in DOMAIN branches : branches[b].id = transfers[i].source_branch_id
        /\ \E b \in DOMAIN branches : branches[b].id = transfers[i].destination_branch_id
        /\ transfers[i].source_branch_id # transfers[i].destination_branch_id

(* the reply to a query for branch `name` made in this state *)
QueryNow(name) == handle_query_branch_total(QueryBranchTotalArgs(name, Absent), "none").reply

(* C7: after a confirmed record() of amount a from branch S, a query for S   *)
(* made right away on the same day returns the query result, whose sum is a  *)
(* when this is the only transfer from S that day.                           *)
C7_RecordThenQuery ==
    (RecordCall /\ last.reply.tpl = "CONFIRM_TRANSFER_MSG" /\ today = last.day)
    => LET a == last.reply.args[1]
           S == last.reply.args[3]
       IN  /\ QueryNow(S).tpl = "QUERY_RESULT_MSG"
           /\ Cardinality({i \in DOMAIN transfers :
                              /\ transfers[i].source_branch_id = NewRow.source_branch_id
                              /\ transfers[i].timestamp = today}) = 1
              => QueryNow(S).args[2].n = a.n /\ QueryNow(S).args[2].t = "float"

(* the rows a query for branch id b counts on day d *)
Counted(b, d) ==
    {i \in DOMAIN transfers :
        transfers[i].source_branch_id = b /\ transfers[i].timestamp = d}

RECURSIVE Total(_)
Total(rows) ==
    IF rows = {} THEN 0
    ELSE LET i == CHOOSE j \in rows : TRUE
         IN  transfers[i].amount.n + Total(rows \ {i})

(* C8: query() on a recognized branch B sums the amounts of exactly the rows *)
(* whose source is B and whose timestamp is the current date; a total > 0 is *)
(* returned in the query-result message, no matching row gives the           *)
(* no-transfers-found message.                                               *)
C8_QueryTotal ==
    (QueryCall /\ Canonical(Arg("query_branch")) # None /\ last.dbf = "none"
     /\ HasBranch(Canonical(Arg("query_branch"))))
    => LET B == Canonical(Arg("query_branch"))
           rows == Counted(BranchIdOf(B), last.day)
       IN  /\ LedgerUnchanged
           /\ rows = {} => last.reply = QUERY_NO_RESULT_MSG(B)
           /\ (\A i \in rows : transfers[i].amount.t = "float") /\ Total(rows) > 0
              => last.reply = QUERY_RESULT_MSG(B, PyFloat(Total(rows)), DEFAULT_CURRENCY)

C8_Witness ==
    /\ QueryCall /\ last.reply.tpl = "QUERY_RESULT_MSG"
    /\ Len(transfers) = 2
    /\ Cardinality(Counted(BranchIdOf(Canonical(Arg("query_branch"))), last.day)) = 1

(* C9: query() with the branch omitted returns missing-query-branch without  *)
(* invoking the normalizer; with a branch that does not normalize it returns *)
(* branch-not-found; in neither case is the ledger accessed.                 *)
C9_QueryInputErrors ==
    QueryCall
    => /\ Omitted(Arg("query_branch"))
          => /\ last.reply = ERROR_MSG_MISSING_INFO_QUERY
             /\ last.norm = 0
             /\ LedgerUntouched
       /\ (~Omitted(Arg("query_branch")) /\ Canonical(Arg("query_branch")) = None)
          => /\ last.reply = ERROR_MSG_BRANCH_NOT_FOUND(Arg("query_branch"), FullBranchList)
             /\ LedgerUntouched

C9_Witness ==
    /\ QueryCall /\ Arg("query_branch") = Str(<<>>)
    /\ last.reply = ERROR_MSG_MISSING_INFO_QUERY

NoInstruction ==
    /\ last.op = "handle_message" /\ last.nlu
    /\ \/ last.oracle.kind \in {"api_error", "exception", "no_tool_call", "bad_json"}
       \/ last.intent = "error_processing_llm"

(* C10: when the oracle call yields no actionable instruction no use case    *)
(* runs and the ledger is unchanged; a transient oracle failure resolves to  *)
(* the api-down intent and the external-service-down reply, no instruction   *)
(* and unparseable arguments resolve to the could-not-understand reply.      *)
C10_NoInstructionReplies ==
    NoInstruction
    => /\ last.usecase = "none" /\ LedgerUntouched /\ last.norm = 0
       /\ last.oracle.kind = "api_error"
          => last.intent = "error_api_down" /\ last.reply = ERROR_MSG_API_DOWN
       /\ last.oracle.kind = "no_tool_call"
          => last.intent = "unclear_request" /\ last.reply = ERROR_MSG_UNDERSTAND
       /\ last.oracle.kind = "bad_json"
          => last.intent = "error_parsing_llm" /\ last.reply = ERROR_MSG_UNDERSTAND
       /\ last.oracle.kind = "tool_call"
          => last.reply = ERROR_MSG_UNDERSTAND

C10_Witness ==
    /\ NoInstruction /\ last.oracle.kind = "api_error"
    /\ last.reply = ERROR_MSG_API_DOWN
    /\ Len(transfers) > 0

(* the last request carried a message whose sender, type and id are there *)
MessageRead ==
    /\ last.op = "handle_message"
    /\ last.message.object = "whatsapp_business_account"
    /\ last.message.shape \in {"ok", "no_content"}

(* the texts of the replies the last request tried to send *)
SentTexts == [i \in DOMAIN last.sends |-> last.sends[i].text]

(* a voice message whose audio was looked up and did not yield a text *)
TranscriptionFailed ==
    /\ MessageRead /\ last.message.shape = "ok" /\ last.mtype = "audio"
    /\ last.media.stage # "ok" \/ last.media.transcript = Str(<<>>)

(* C11: a voice message whose transcription fails (media URL lookup,       *)
(* download, speech-to-text, or an empty transcript) is answered with the  *)
(* transcription-failed message; the oracle is not invoked, no use case    *)
(* runs and the ledger is unchanged.                                       *)
C11_TranscriptionFailure ==
    TranscriptionFailed
    => /\ SentTexts = <<ERROR_MSG_STT_FAILED>>
       /\ ~last.nlu /\ last.oracle = NoOracle
       /\ last.usecase = "none" /\ LedgerUntouched

C11_Witness ==
    /\ TranscriptionFailed /\ last.media.stage = "download_error"
    /\ SentTexts = <<ERROR_MSG_STT_FAILED>>
    /\ Len(transfers) > 0

(* C12: a message whose type is neither text nor voice is acknowledged     *)
(* (HTTP 200) with no transcription, no oracle call, no use case, no       *)
(* ledger access and no reply.                                             *)
C12_UnsupportedIgnored ==
    (MessageRead /\ last.mtype \notin {"text", "audio"})
    => /\ last.http = 200 /\ last.exc = ""
       /\ ~last.transcribed /\ ~last.nlu /\ last.usecase = "none"
       /\ LedgerUntouched /\ last.norm = 0
       /\ last.sends = <<>>

C12_Witness ==
    /\ MessageRead /\ last.mtype = "image" /\ last.message.shape = "ok"
    /\ last.http = 200 /\ last.sends = <<>>
    /\ Len(transfers) > 0

(* C13: every message of type text or voice that enters processing ends in *)
(* an outcome with exactly one reply attempted to its sender, whatever     *)
(* fails on the way, an incomplete payload included.                       *)
C13_ExactlyOneReply ==
    (/\ last.op = "handle_message"
     /\ last.message.object = "whatsapp_business_account"
     /\ last.message.shape \in {"ok", "no_content", "no_id"}
     /\ last.mtype \in {"text", "audio"})
    => /\ Len(last.sends) = 1
       /\ last.sends[1].to = last.message.from

(* the last request was a webhook of the platform (line 140) *)
PlatformWebhook ==
    last.op = "handle_message" /\ last.message.object = "whatsapp_business_account"

(* C14: no exception escapes handle_message: every webhook of the platform *)
(* is answered with HTTP 200, whether processing succeeded, the oracle or  *)
(* the persistence layer failed, the payload or the oracle's arguments     *)
(* were malformed, or the reply could not be delivered; a reply that could *)
(* not be delivered is not sent again.                                     *)
C14_AlwaysAcknowledged ==
    PlatformWebhook
    => /\ last.http = 200
       /\ last.exc \in {"", "KeyError", "IndexError", "AttributeError", "UnboundLocalError"}
       /\ Len(last.sends) <= 1

C14_Witness ==
    /\ PlatformWebhook /\ last.http = 200
    /\ last.dbf = "commit" /\ last.db = "fault_commit"
    /\ Len(last.sends) = 1 /\ ~last.sends[1].ok

(* the qualifier removed once, at the start only *)
RemoveLeadingQualifier(q) ==
    IF Len(q) >= 2 /\ q[1] = "far" /\ q[2] = " " THEN SubSeq(q, 3, Len(q)) ELSE q

(* C15: normalize(raw) returns c exactly when raw is a string that, with   *)
(* one leading qualifier removed and the surrounding whitespace trimmed,   *)
(* equals c, a name of the Directory; every other input gives NotFound.    *)
C15_NormalizeIff ==
    norm_calls = 1
    => \A c \in Range(KNOWN_BRANCHES) :
           norm_result = Str(c)
           <=> (raw_name.t = "str" /\ Strip(RemoveLeadingQualifier(raw_name.s)) = c)

(* C16: when normalize(s) succeeds with the canonical name c, normalize(c) *)
(* succeeds and returns c.                                                 *)
C16_NormalizeIdempotent ==
    /\ (norm_calls >= 1 /\ norm_result # None)
       => /\ norm_result.s \in Range(KNOWN_BRANCHES)
          /\ normalize_branch_name_strict(norm_result) = norm_result
    /\ norm_calls = 2 => norm_result = raw_name

C16_Witness ==
    /\ norm_calls = 2
    /\ raw_name = Str(<<"Markaz", " ", "Raisi">>)
    /\ norm_result = raw_name

(* C17: seeding a store without branches inserts one row per canonical     *)
(* name, in Directory order, all or nothing; seeding a store that has a    *)
(* branch changes nothing, so any number of runs leaves the table of one.  *)
C17_SeedingIdempotent ==
    /\ branches \in {<<>>, Directory}
    /\ last.op = "init_db"
       => /\ Len(last.store) > 0 => branches = last.store
          /\ (Len(last.store) = 0 /\ last.dbf = "none") => branches = Directory
          /\ (Len(last.store) = 0 /\ last.dbf = "seed") => branches = <<>>

C17_Witness ==
    /\ last.op = "init_db" /\ last.store = Directory /\ branches = Directory
    /\ Len(transfers) > 0

(* C18: Transfer rows are only added, one per record() call that returns   *)
(* the confirmation; nothing else adds, changes or deletes a Transfer row, *)
(* and no existing Transfer or Branch row is ever changed or deleted.      *)
C18_TransfersOnlyGrow ==
    [][/\ \/ transfers' = transfers
          \/ /\ Len(transfers') = Len(transfers) + 1
             /\ SubSeq(transfers', 1, Len(transfers)) = transfers
             /\ last'.op = "handle_message" /\ last'.usecase = "record"
             /\ last'.reply.tpl = "CONFIRM_TRANSFER_MSG"
       /\ Len(branches) > 0 => branches' = branches]_vars

(* the oracle asked for a transfer that is valid but for its currency *)
NoCurrencySupplied ==
    /\ RecordCall
    /\ last.oracle.kind = "tool_call" /\ last.oracle.fn = "record_transfer"
    /\ last.oracle.args["currency"].t \in {"absent", "none"}
    /\ PositiveNumber(Arg("amount")) /\ TwoDifferentBranches
    /\ last.dbf = "none"
    /\ HasBranch(Canonical(Arg("source_branch")))
    /\ HasBranch(Canonical(Arg("destination_branch")))

(* C19: when the oracle supplies no currency (absent, or without a value)  *)
(* a valid transfer is recorded with the default currency and confirmed,   *)
(* and every persisted Transfer has a currency.                            *)
C19_CurrencyDefaulted ==
    /\ NoCurrencySupplied
       => /\ Len(transfers) = Len(last.before) + 1
          /\ NewRow.currency = DEFAULT_CURRENCY
          /\ last.reply.tpl = "CONFIRM_TRANSFER_MSG"
          /\ last.reply.args[2] = DEFAULT_CURRENCY
    /\ \A i \in DOMAIN transfers : transfers[i].currency.t = "str"

(* the fields step 1 of record() finds missing or invalid *)
ErrorsOf(entities) ==
    TransferErrors(Get(entities, "amount"), Get(entities, "source_branch"),
                   Get(entities, "destination_branch"))

(* C20: the missing/invalid-fields response of step 1 of record() tells    *)
(* which of amount, source branch and destination branch were absent or    *)
(* invalid: requests with different sets get different responses.          *)
C20_MissingFieldsIdentified ==
    (RecordCall /\ ErrorsOf(last.entities) # <<>>)
    => \A a \in RecordArgs :
           LET other == get_intent_and_entities_from_llm(
                            last.text, Oracle("tool_call", "record_transfer", a))
           IN  (/\ other.intent = "record_transfer"
                /\ ErrorsOf(other.entities) # <<>>
                /\ ErrorsOf(other.entities) # ErrorsOf(last.entities))
               => handle_record_transfer(other.entities, Sender, last.text, "none").reply
                  # last.reply

(* init_db() is over for the worker, whichever way it ended *)
SeedingOver(w) == seeders[w].pc \in {"crashed", "populated", "seeded", "lost"}

(* the names of the committed rows and of every open transaction's rows *)
RowNames ==
    [i \in DOMAIN branches |-> branches[i].name]

OpenNames(w) == {seeders[w].pending[i] : i \in DOMAIN seeders[w].pending}

(* C21: workers seeding an empty store at the same time: in no state do   *)
(* two Branch rows share a name, be they committed or inserted in a       *)
(* transaction still open; a worker that lost the race has rolled back    *)
(* everything it inserted; once every worker is through, the table holds  *)
(* exactly one row for every name of KNOWN_BRANCHES.                      *)
C21_ConcurrentSeeding ==
    /\ \A i, j \in DOMAIN branches :
           branches[i].name = branches[j].name => i = j
    /\ \A w \in Seeders :
           /\ \A name \in OpenNames(w) : ~Committed(name) /\ ~HeldByOther(name, w)
           /\ seeders[w].pc = "lost" => seeders[w].pending = <<>>
    /\ (\A w \in Seeders : SeedingOver(w)) => RowNames = KNOWN_BRANCHES

(* every worker is through; one seeded the table, another lost the race *)
C21_Witness ==
    /\ \A w \in Seeders : SeedingOver(w)
    /\ \E w, v \in Seeders : seeders[w].pc = "seeded" /\ seeders[v].pc = "lost"
    /\ RowNames = KNOWN_BRANCHES

====
